---- MODULE Spec2Model ----
(***************************************************************************)
(* The /chat handlers of racs_bot: chat_endpoint (app.py) and chat         *)
(* (main.py).  A request carries a JSON body; the handler normalizes the   *)
(* conversation history into a transcript, calls the model gateway and     *)
(* extracts the reply text.                                                *)
(***************************************************************************)
EXTENDS Integers, Sequences, FiniteSets, TLC

VARIABLES req, INITIALIZATION_SUCCESSFUL

vars == <<req, INITIALIZATION_SUCCESSFUL>>

(* ------------------------------ bounds -------------------------------- *)
\* longest history list a request carries
MaxItems == 2
\* longest parts list of a history item and of a gateway candidate
MaxParts == 1

SeqsUpTo(S, n) == UNION {[1..k -> S] : k \in 0..n}

(* ---------------------------- JSON values ----------------------------- *)
\* A JSON value is tagged with its Python type; Absent marks a missing key.
Absent == [t |-> "absent"]
JNull == [t |-> "null"]
JNum(n) == [t |-> "num", n |-> n]
JStr(s) == [t |-> "str", s |-> s]
JList(items) == [t |-> "list", items |-> items]
JObj(fields) == [t |-> "obj", fields |-> fields]

IsObj(v) == v.t = "obj"
IsList(v) == v.t = "list"
IsStr(v) == v.t = "str"

\* Python truthiness: `not v` is ~Truthy(v)
Truthy(v) ==
    CASE v.t = "null" -> FALSE
      [] v.t = "num" -> v.n # 0
      [] v.t = "str" -> v.s # ""
      [] v.t = "list" -> v.items # <<>>
      [] v.t = "obj" -> DOMAIN v.fields # {}
      [] OTHER -> FALSE

HasKey(obj, k) == k \in DOMAIN obj.fields

\* dict.get(k): None when the key is missing
Get(obj, k) == IF HasKey(obj, k) THEN obj.fields[k] ELSE JNull

\* dict.get(k, default)
GetOr(obj, k, default) == IF HasKey(obj, k) THEN obj.fields[k] ELSE default

\* an object from optional key values: keys whose value is Absent are left out
MkObj(kv) == JObj([k \in {x \in DOMAIN kv : kv[x] # Absent} |-> kv[k]])

(* ------------------------------ strings ------------------------------- *)
UpperLetters == "ABCDEFGHIJKLMNOPQRSTUVWXYZ"
LowerLetters == "abcdefghijklmnopqrstuvwxyz"

\* each uppercase letter with its lowercase letter
LowerMap ==
    [c \in {SubSeq(UpperLetters, i, i) : i \in 1..Len(UpperLetters)} |->
        LET i == CHOOSE j \in 1..Len(UpperLetters) : SubSeq(UpperLetters, j, j) = c
        IN SubSeq(LowerLetters, i, i)]

LowerChar(c) == IF c \in DOMAIN LowerMap THEN LowerMap[c] ELSE c

RECURSIVE Lower(_)
\* str.lower()
Lower(s) ==
    IF s = "" THEN ""
    ELSE LowerChar(SubSeq(s, 1, 1)) \o Lower(SubSeq(s, 2, Len(s)))

\* str.startswith(prefix)
StartsWith(s, prefix) ==
    /\ Len(s) >= Len(prefix)
    /\ SubSeq(s, 1, Len(prefix)) = prefix

\* needle in s
Contains(s, needle) ==
    \E i \in 1..(Len(s) - Len(needle) + 1) : SubSeq(s, i, i + Len(needle) - 1) = needle

RECURSIVE Join(_)
\* "".join(texts)
Join(texts) == IF texts = <<>> THEN "" ELSE Head(texts) \o Join(Tail(texts))

(* --------------------------- request bodies --------------------------- *)
\* role values a caller may send (Absent: no "role" key)
RoleValues == {Absent, JStr("user"), JStr("USER"), JStr("Model"), JStr("admin"), JNum(5)}

\* one element of a "parts" list
PartValues ==
    {JNum(7), MkObj([text |-> Absent]), MkObj([text |-> JStr("")]), MkObj([text |-> JStr("Hi")])}

\* "parts" values: missing, not a list, or a list of parts
PartsValues == {Absent, JStr("x")} \cup {JList(ps) : ps \in SeqsUpTo(PartValues, MaxParts)}

\* "content" values (read by main.py only)
ContentValues == {JStr(""), JStr("Hi")}

\* a parts list that carries text
GoodParts == JList(<<MkObj([text |-> JStr("Hi")])>>)

\* history items: a non-object, every role with a good parts list, every parts
\* value with a good role, the uppercase role with an empty parts list, and
\* every role with a flat "content"
ItemValues ==
    {JNum(5)}
    \cup {MkObj([role |-> r, parts |-> GoodParts]) : r \in RoleValues}
    \cup {MkObj([role |-> JStr("user"), parts |-> p]) : p \in PartsValues}
    \cup {MkObj([role |-> JStr("USER"), parts |-> JList(<<>>)])}
    \cup {MkObj([role |-> r, content |-> c]) : r \in RoleValues, c \in ContentValues}

\* "history" values: missing, falsy, not a list, or a list of items
HistoryValues ==
    {Absent, JStr(""), JStr("abc")} \cup {JList(h) : h \in SeqsUpTo(ItemValues, MaxItems)}

\* the request as the handler sees it: content type not JSON, a JSON body that
\* is no object, or an object with optional "message" and "history"
NotJson == [t |-> "notjson"]

Bodies(message) ==
    {NotJson, JList(<<JNum(1)>>)}
    \cup {MkObj([message |-> m, history |-> h]) : m \in message, h \in HistoryValues}

\* chat_endpoint never reads "message"; chat reads it
BodiesFor(h) == IF h = "app" THEN Bodies({Absent}) ELSE Bodies({Absent, JStr("Hi")})

Handlers == {"app", "main"}

(* -------------------------- gateway outcomes -------------------------- *)
\* a part of a candidate: with a text attribute or without
RespParts ==
    {[has_text |-> FALSE, text |-> ""]}
    \cup {[has_text |-> TRUE, text |-> s] : s \in {"", "Hi there", "Error: x"}}

\* candidate.content: None, or a content with a parts list
NoContent == [present |-> FALSE, parts |-> <<>>]

RespContents == {NoContent} \cup {[present |-> TRUE, parts |-> ps] : ps \in SeqsUpTo(RespParts, MaxParts)}

\* finish_reason enum names; FINISH_REASON_UNSPECIFIED is the falsy zero value
FinishReasons == {"FINISH_REASON_UNSPECIFIED", "SAFETY", "MAX_TOKENS"}

Candidates == [content : RespContents, finish_reason : FinishReasons]

\* response.text: attribute missing, or a string
RespTexts == {[has |-> FALSE, text |-> ""]} \cup {[has |-> TRUE, text |-> s] : s \in {"", "Top"}}

\* the text of the exception a failing gateway call raises
ExcText == "429 Quota exceeded for project"

NoReply == [kind |-> "none"]

GatewayOutcomes ==
    {[kind |-> "raise", exc |-> ExcText]}
    \cup {[kind |-> "response", candidates |-> cs, text |-> t] :
            cs \in {<<>>} \cup {<<c>> : c \in Candidates}, t \in RespTexts}

(* ----------------------------- responses ------------------------------ *)
NoResponse == [status |-> 0, key |-> "none", body |-> ""]

\* jsonify({key: body}), status
Response(status, key, body) == [status |-> status, key |-> key, body |-> body]

MsgNotJson == "Request content type must be application/json"
MsgMissingHistory == "Missing 'history' field in JSON request body"
MsgHistoryNotList == "'history' must be a list of message objects"
MsgNoValidContent == "No valid message content found in 'history'"
MsgHistoryFormat == "Server error processing history format"
MsgNotInitialized == "Error: Backend server configuration issue. Please check logs."
MsgEmptyParts == "Error: Model returned empty parts."
MsgSafety == "Error: The response was blocked due to safety settings."
MsgStopped(reason) == "Error: Model generation stopped unexpectedly (Reason: " \o reason \o ")."
MsgBadFormat == "Error: Could not process the model's response format."
MsgException == "Error: An exception occurred while communicating with the AI model."

(* ------------------- chat_endpoint: history conversion ----------------- *)
\* Content(role=..., parts=[Part.from_text(..)]): a turn of the transcript
Turn(role, parts) == [role |-> role, parts |-> parts]

RECURSIVE TextParts(_)
\* [Part.from_text(p.get("text","")) for p in parts_raw if isinstance(p, dict) and "text" in p]
TextParts(parts_raw) ==
    IF parts_raw = <<>> THEN <<>>
    ELSE LET p == Head(parts_raw)
         IN (IF IsObj(p) /\ HasKey(p, "text") THEN <<GetOr(p, "text", JStr("")).s>> ELSE <<>>)
            \o TextParts(Tail(parts_raw))

\* the skip test of the loop body; role.lower() is evaluated only for a truthy role
SkipsItem(role, parts_raw) ==
    \/ ~Truthy(role)
    \/ Lower(role.s) \notin {"user", "model"}
    \/ ~Truthy(parts_raw)
    \/ ~IsList(parts_raw)

\* item.get(..) on a non-dict and role.lower() on a truthy non-string raise
ItemRaises(item) ==
    \/ ~IsObj(item)
    \/ (Truthy(Get(item, "role")) /\ ~IsStr(Get(item, "role")))

\* one pass of the loop body over an item that does not raise: the turns appended
ConvertItem(item) ==
    LET role == Get(item, "role")
        parts_raw == Get(item, "parts")
    IN IF SkipsItem(role, parts_raw) THEN <<>>
       ELSE LET text_parts == TextParts(parts_raw.items)
            IN IF text_parts = <<>> THEN <<>>
               ELSE <<Turn(Lower(role.s), text_parts)>>

RECURSIVE ConvertHistory(_)
\* the for loop: [ok |-> FALSE] when an item raises, else the history_content built
ConvertHistory(history_raw) ==
    IF history_raw = <<>> THEN [ok |-> TRUE, content |-> <<>>]
    ELSE IF ItemRaises(Head(history_raw)) THEN [ok |-> FALSE, content |-> <<>>]
    ELSE LET rest == ConvertHistory(Tail(history_raw))
         IN IF rest.ok
            THEN [ok |-> TRUE, content |-> ConvertItem(Head(history_raw)) \o rest.content]
            ELSE rest

\* the test left out, as in the revisions that send an empty transcript
NoValidContentUnchecked(history_content, history_raw) == FALSE

\* the test after the loop that rejects a history none of whose items survived
NoValidContent(history_content, history_raw) == history_content = <<>> /\ history_raw # <<>>

\* chat_endpoint up to the call of generate_response: a response to return, the
\* exception that escapes, or the history_content to send
ValidateApp(data) ==
    IF data = NotJson
    THEN [kind |-> "respond", response |-> Response(415, "error", MsgNotJson)]
    ELSE IF ~IsObj(data)
    THEN [kind |-> "raise", exc |-> "AttributeError"]
    ELSE LET history_raw == Get(data, "history")
         IN IF ~Truthy(history_raw)
            THEN [kind |-> "respond", response |-> Response(400, "error", MsgMissingHistory)]
            ELSE IF ~IsList(history_raw)
            THEN [kind |-> "respond", response |-> Response(400, "error", MsgHistoryNotList)]
            ELSE LET conv == ConvertHistory(history_raw.items)
                 IN IF ~conv.ok
                    THEN [kind |-> "respond", response |-> Response(500, "error", MsgHistoryFormat)]
                    ELSE IF NoValidContent(conv.content, history_raw.items)
                    THEN [kind |-> "respond", response |-> Response(400, "error", MsgNoValidContent)]
                    ELSE [kind |-> "send", content |-> conv.content]

(* -------------------- generate_response: extraction -------------------- *)
\* "".join(part.text for part in parts if hasattr(part, 'text'))
PartsText(parts) ==
    LET with_text == SelectSeq(parts, LAMBDA p : p.has_text)
    IN Join([i \in DOMAIN with_text |-> with_text[i].text])

FinishTruthy(reason) == reason # "FINISH_REASON_UNSPECIFIED"

\* the if/elif chain over the gateway's response object
ExtractText(response) ==
    LET cs == response.candidates
    IN IF cs # <<>> /\ cs[1].content.present /\ cs[1].content.parts # <<>>
       THEN LET full_response_text == PartsText(cs[1].content.parts)
            IN IF full_response_text # "" THEN full_response_text ELSE MsgEmptyParts
       ELSE IF response.text.has /\ response.text.text # ""
       THEN response.text.text
       ELSE IF cs # <<>> /\ FinishTruthy(cs[1].finish_reason)
       THEN IF cs[1].finish_reason = "SAFETY" THEN MsgSafety ELSE MsgStopped(cs[1].finish_reason)
       ELSE MsgBadFormat

\* what generate_response returns once the gateway call has ended
GenerateResult(outcome) ==
    IF outcome.kind = "raise" THEN MsgException ELSE ExtractText(outcome)

\* status code and payload chosen from response_text
FinalResponse(response_text) ==
    LET status_code == IF response_text # "" /\ StartsWith(response_text, "Error:") THEN 500 ELSE 200
    IN IF status_code = 500
       THEN Response(500, "error", response_text)
       ELSE Response(200, "response", response_text)

(* ---------------------- chat (main.py): contents ----------------------- *)
\* message["role"] and message["content"] raise on a non-dict and on a missing key
MessageRaises(message) ==
    \/ ~IsObj(message)
    \/ ~HasKey(message, "role")
    \/ ~HasKey(message, "content")

\* role = "user" if message["role"] == "user" else "model"
MainRole(message) == IF message.fields["role"] = JStr("user") THEN "user" ELSE "model"

RECURSIVE MainContents(_)
\* the loop over conversation_history: [ok |-> FALSE] when a message raises
MainContents(conversation_history) ==
    IF conversation_history = <<>> THEN [ok |-> TRUE, content |-> <<>>]
    ELSE IF MessageRaises(Head(conversation_history)) THEN [ok |-> FALSE, content |-> <<>>]
    ELSE LET message == Head(conversation_history)
             rest == MainContents(Tail(conversation_history))
         IN IF rest.ok
            THEN [ok |-> TRUE,
                  content |-> <<Turn(MainRole(message), <<message.fields["content"].s>>)>>
                              \o rest.content]
            ELSE rest

\* chat up to the gateway call: the exception that escapes, or the contents to send
BuildMain(data) ==
    IF data = NotJson THEN [kind |-> "raise", exc |-> "UnsupportedMediaType"]
    ELSE IF ~IsObj(data) THEN [kind |-> "raise", exc |-> "AttributeError"]
    ELSE LET user_message == GetOr(data, "message", JStr(""))
             conversation_history == GetOr(data, "history", JList(<<>>))
             new_turn == <<Turn("user", <<user_message.s>>)>>
         IN IF ~Truthy(conversation_history)
            THEN [kind |-> "send", content |-> new_turn]
            ELSE IF ~IsList(conversation_history)
            THEN [kind |-> "raise", exc |-> "TypeError"]
            ELSE LET conv == MainContents(conversation_history.items)
                 IN IF conv.ok
                    THEN [kind |-> "send", content |-> conv.content \o new_turn]
                    ELSE [kind |-> "raise", exc |-> "KeyError"]

(* ------------------------------ requests ------------------------------ *)
NoData == [t |-> "none"]

\* a worker slot with no request
Idle ==
    [handler |-> "none", pc |-> "idle", data |-> NoData, history_content |-> <<>>,
     called |-> FALSE, reply |-> NoReply, response |-> NoResponse,
     raised |-> FALSE, exc |-> ""]

Init ==
    /\ req = [r \in {1} |-> Idle]
    /\ INITIALIZATION_SUCCESSFUL \in BOOLEAN

\* a request arrives at one of the /chat handlers
Receive(r) ==
    /\ req[r].pc = "idle"
    /\ \E h \in Handlers : \E body \in BodiesFor(h) :
         req' = [req EXCEPT ![r] = [Idle EXCEPT !.handler = h, !.pc = "received", !.data = body]]
    /\ UNCHANGED INITIALIZATION_SUCCESSFUL

\* the handler returns `response`
Returned(q, response) == [q EXCEPT !.pc = "done", !.response = response]

\* an exception leaves the handler
Escaped(q, exc) == [q EXCEPT !.pc = "done", !.raised = TRUE, !.exc = exc]

\* the transcript is built and the handler goes on to the model call
Ready(q, content) == [q EXCEPT !.pc = "ready", !.history_content = content]

\* the handler blocks in the gateway call; the request body is not read again
Calling(q) == [q EXCEPT !.pc = "calling", !.called = TRUE, !.data = NoData]

\* chat_endpoint from its entry to the call of generate_response
ChatEndpointBegin(r) ==
    /\ req[r].pc = "received"
    /\ req[r].handler = "app"
    /\ LET v == ValidateApp(req[r].data)
       IN req' = [req EXCEPT ![r] =
              IF v.kind = "respond" THEN Returned(@, v.response)
              ELSE IF v.kind = "raise" THEN Escaped(@, v.exc)
              ELSE Ready(@, v.content)]
    /\ UNCHANGED INITIALIZATION_SUCCESSFUL

\* generate_response without the test of the initialization flag
GenerateResponseCallUnguarded(r) ==
    /\ req[r].pc = "ready"
    /\ req[r].handler = "app"
    /\ req' = [req EXCEPT ![r] = Calling(@)]
    /\ UNCHANGED INITIALIZATION_SUCCESSFUL

\* generate_response from its entry to the gateway call: without a successful
\* initialization it returns the configuration error and chat_endpoint returns
GenerateResponseCall(r) ==
    /\ req[r].pc = "ready"
    /\ req[r].handler = "app"
    /\ req' = [req EXCEPT ![r] =
          IF ~INITIALIZATION_SUCCESSFUL
          THEN Returned(@, FinalResponse(MsgNotInitialized))
          ELSE Calling(@)]
    /\ UNCHANGED INITIALIZATION_SUCCESSFUL

\* a variant of the end of the gateway call that keeps a module-level health
\* flag: a failed gateway call marks the process as not initialized
ChatEndpointEndMarksFailure(r) ==
    /\ req[r].pc = "calling"
    /\ req[r].handler = "app"
    /\ \E outcome \in GatewayOutcomes :
         /\ req' = [req EXCEPT ![r] =
                Returned([@ EXCEPT !.reply = outcome], FinalResponse(GenerateResult(outcome)))]
         /\ INITIALIZATION_SUCCESSFUL' = (INITIALIZATION_SUCCESSFUL /\ outcome.kind # "raise")

\* the gateway call ends; generate_response and chat_endpoint run to their return
ChatEndpointEnd(r) ==
    /\ req[r].pc = "calling"
    /\ req[r].handler = "app"
    /\ \E outcome \in GatewayOutcomes :
         req' = [req EXCEPT ![r] =
              Returned([@ EXCEPT !.reply = outcome], FinalResponse(GenerateResult(outcome)))]
    /\ UNCHANGED INITIALIZATION_SUCCESSFUL

\* chat from its entry to the end of the contents it builds
ChatBegin(r) ==
    /\ req[r].pc = "received"
    /\ req[r].handler = "main"
    /\ LET v == BuildMain(req[r].data)
       IN req' = [req EXCEPT ![r] =
              IF v.kind = "raise" THEN Escaped(@, v.exc) ELSE Ready(@, v.content)]
    /\ UNCHANGED INITIALIZATION_SUCCESSFUL

\* chat configures the call and invokes the gateway
ChatCall(r) ==
    /\ req[r].pc = "ready"
    /\ req[r].handler = "main"
    /\ req' = [req EXCEPT ![r] = Calling(@)]
    /\ UNCHANGED INITIALIZATION_SUCCESSFUL

\* the gateway call ends; chat reads response.text and returns
ChatEnd(r) ==
    /\ req[r].pc = "calling"
    /\ req[r].handler = "main"
    /\ \E outcome \in GatewayOutcomes :
         req' = [req EXCEPT ![r] =
              IF outcome.kind = "raise" THEN Escaped([@ EXCEPT !.reply = outcome], outcome.exc)
              ELSE IF ~outcome.text.has
              THEN Escaped([@ EXCEPT !.reply = outcome], "AttributeError")
              ELSE Returned([@ EXCEPT !.reply = outcome],
                            Response(200, "response", outcome.text.text))]
    /\ UNCHANGED INITIALIZATION_SUCCESSFUL

\* the response (or the escaped exception) has gone out; the worker is free again
Complete(r) ==
    /\ req[r].pc = "done"
    /\ req' = [req EXCEPT ![r] = Idle]
    /\ UNCHANGED INITIALIZATION_SUCCESSFUL

Next ==
    \/ \E r \in DOMAIN req : Receive(r)
    \/ \E r \in DOMAIN req : ChatEndpointBegin(r)
    \/ \E r \in DOMAIN req : GenerateResponseCall(r)
    \/ \E r \in DOMAIN req : ChatEndpointEnd(r)
    \/ \E r \in DOMAIN req : ChatBegin(r)
    \/ \E r \in DOMAIN req : ChatCall(r)
    \/ \E r \in DOMAIN req : ChatEnd(r)
    \/ \E r \in DOMAIN req : Complete(r)

Spec == Init /\ [][Next]_vars

(* ------------------------- concurrent requests ------------------------ *)
\* the worker threads of the server that handle requests at the same time
Workers == {1, 2}

\* the bodies sent while two requests are in flight: for chat_endpoint a body
\* without history, a history of one well-formed turn and a history of one
\* number; for chat a message alone and a message with a history of one number
ConcurrentBodies(h) ==
    IF h = "app"
    THEN {MkObj([message |-> Absent, history |-> Absent]),
          MkObj([message |-> Absent,
                 history |-> JList(<<MkObj([role |-> JStr("user"), parts |-> GoodParts])>>)]),
          MkObj([message |-> Absent, history |-> JList(<<JNum(5)>>)])}
    ELSE {MkObj([message |-> JStr("Hi"), history |-> Absent]),
          MkObj([message |-> JStr("Hi"), history |-> JList(<<JNum(5)>>)])}

InitConcurrent ==
    /\ req = [r \in Workers |-> Idle]
    /\ INITIALIZATION_SUCCESSFUL \in BOOLEAN

\* a request arrives at a free worker while the other worker may be busy
ReceiveConcurrent(r) ==
    /\ req[r].pc = "idle"
    /\ \E h \in Handlers : \E body \in ConcurrentBodies(h) :
         req' = [req EXCEPT ![r] = [Idle EXCEPT !.handler = h, !.pc = "received", !.data = body]]
    /\ UNCHANGED INITIALIZATION_SUCCESSFUL

NextConcurrent ==
    \/ \E r \in DOMAIN req : ReceiveConcurrent(r)
    \/ \E r \in DOMAIN req : ChatEndpointBegin(r)
    \/ \E r \in DOMAIN req : GenerateResponseCall(r)
    \/ \E r \in DOMAIN req : ChatEndpointEnd(r)
    \/ \E r \in DOMAIN req : ChatBegin(r)
    \/ \E r \in DOMAIN req : ChatCall(r)
    \/ \E r \in DOMAIN req : ChatEnd(r)
    \/ \E r \in DOMAIN req : Complete(r)

SpecConcurrent == InitConcurrent /\ [][NextConcurrent]_vars

(* ------------------------- what the claims use ------------------------ *)
\* the "history" value of a request body (None when the key is missing)
HistoryOf(data) == Get(data, "history")

\* a role the specification recognizes: "user" or "model" in any letter case
RecognizedRole(v) == IsStr(v) /\ Lower(v.s) \in {"user", "model"}

\* a part object that carries a text key
TextPart(p) == IsObj(p) /\ HasKey(p, "text")

\* a part object that carries non-empty text
NonEmptyTextPart(p) == TextPart(p) /\ IsStr(p.fields["text"]) /\ p.fields["text"].s # ""

\* the item has non-empty text among its parts
HasPartsText(item) ==
    /\ IsObj(item)
    /\ IsList(Get(item, "parts"))
    /\ \E i \in DOMAIN Get(item, "parts").items : NonEmptyTextPart(Get(item, "parts").items[i])

\* the item has a non-empty flat content field
HasFlatText(item) ==
    /\ IsObj(item)
    /\ IsStr(Get(item, "content"))
    /\ Get(item, "content").s # ""

\* well-formed: a recognized role and non-empty text among the parts
WellFormedItem(item) == IsObj(item) /\ RecognizedRole(Get(item, "role")) /\ HasPartsText(item)

\* valid in the widest reading: a recognized role and text in either form
ValidItem(item) ==
    IsObj(item) /\ RecognizedRole(Get(item, "role")) /\ (HasPartsText(item) \/ HasFlatText(item))

\* the body is a JSON object whose history is missing, empty, no sequence, or
\* a sequence without a valid item
HistoryInvalid(data) ==
    /\ data # NoData
    /\ IsObj(data)
    /\ \/ ~IsList(HistoryOf(data))
       \/ \A i \in DOMAIN HistoryOf(data).items : ~ValidItem(HistoryOf(data).items[i])

\* the handler answered with a client-error classification
ClientError(q) ==
    ~q.raised /\ q.response.key = "error" /\ q.response.status \in 400..499

\* the handler answered with a server-error classification
ServerError(q) ==
    ~q.raised /\ q.response.key = "error" /\ q.response.status \in 500..599

\* C1: a request whose history is missing, empty, no sequence or without a valid
\* item never reaches the gateway (no step takes it into the gateway call) and,
\* when its handler ends, it has been rejected with a client error.
C1_InvalidHistoryNeverForwarded ==
    [][\A r \in DOMAIN req :
          HistoryInvalid(req[r].data) =>
              /\ ~req'[r].called
              /\ (req'[r].pc = "done" => ClientError(req'[r]))]_vars

\* C2: when the gateway call raised a transport exception, the request ends with
\* a server-error response the handler produced, no exception leaves the
\* handler, and the response does not carry the text of the exception.
C2_TransportErrorContained ==
    \A r \in DOMAIN req :
        (req[r].pc = "done" /\ req[r].reply.kind = "raise") =>
            /\ ServerError(req[r])
            /\ ~Contains(req[r].response.body, req[r].reply.exc)

\* C3: every request with a JSON payload ends with a response its handler
\* produced; no exception escapes the handler.
C3_NoExceptionEscapes ==
    \A r \in DOMAIN req :
        (req[r].pc = "done" /\ req[r].data # NotJson) =>
            /\ ~req[r].raised
            /\ req[r].response # NoResponse

\* the concatenated text of the leading candidate's text-bearing parts
CandidateText(response) ==
    IF response.candidates # <<>> /\ response.candidates[1].content.present
    THEN LET ps == response.candidates[1].content.parts
         IN Join([i \in DOMAIN SelectSeq(ps, LAMBDA p : p.has_text) |->
                     SelectSeq(ps, LAMBDA p : p.has_text)[i].text])
    ELSE ""

\* the top-level text of the response ("" when there is none)
TopText(response) == IF response.text.has THEN response.text.text ELSE ""

\* the finish reason of the leading candidate ("" when there is none)
LeadingFinish(response) ==
    IF response.candidates # <<>> /\ FinishTruthy(response.candidates[1].finish_reason)
    THEN response.candidates[1].finish_reason
    ELSE ""

\* the text or failure message the four rules of the specification give, in order
RuleResult(response) ==
    IF CandidateText(response) # "" THEN CandidateText(response)
    ELSE IF TopText(response) # "" THEN TopText(response)
    ELSE IF LeadingFinish(response) = "SAFETY" THEN MsgSafety
    ELSE IF LeadingFinish(response) # "" THEN MsgStopped(LeadingFinish(response))
    ELSE MsgBadFormat

\* C4: for every response object the gateway returns to chat_endpoint, the text
\* or failure message sent to the caller is the one the four rules give in
\* their order (parts text, top-level text, finish reason, malformed).
C4_ExtractionPriority ==
    \A r \in DOMAIN req :
        (req[r].pc = "done" /\ req[r].handler = "app" /\ req[r].reply.kind = "response") =>
            req[r].response.body = RuleResult(req[r].reply)

\* the response has one candidate, finished for SAFETY, and no text anywhere
SafetyBlockedNoText(response) ==
    /\ Len(response.candidates) = 1
    /\ response.candidates[1].finish_reason = "SAFETY"
    /\ \A i \in DOMAIN response.candidates[1].content.parts :
          ~response.candidates[1].content.parts[i].has_text
    /\ TopText(response) = ""

\* C5: a response whose sole candidate finished for SAFETY and has no text parts
\* (an empty parts list, or parts without text) is reported as safety-blocked.
C5_SafetyBlocked ==
    \A r \in DOMAIN req :
        (/\ req[r].pc = "done"
         /\ req[r].handler = "app"
         /\ req[r].reply.kind = "response"
         /\ SafetyBlockedNoText(req[r].reply)) =>
            req[r].response = Response(500, "error", MsgSafety)

\* the request body is still held and its history is a list
HasHistoryList(q) == q.data # NoData /\ IsObj(q.data) /\ IsList(HistoryOf(q.data))

\* the items of the history list of a request
ItemsOf(q) == HistoryOf(q.data).items

\* the text of every part of an item that has a text key, concatenated in order
ItemText(item) ==
    LET ps == SelectSeq(Get(item, "parts").items, TextPart)
    IN Join([i \in DOMAIN ps |-> ps[i].fields["text"].s])

\* role and text of each turn the specification keeps: the well-formed items, in order
ExpectedTurns(items) ==
    LET kept == SelectSeq(items, WellFormedItem)
    IN [i \in DOMAIN kept |->
           [role |-> Lower(Get(kept[i], "role").s), text |-> ItemText(kept[i])]]

\* role and text of each turn of a transcript
TurnsOf(history_content) ==
    [i \in DOMAIN history_content |->
        [role |-> history_content[i].role, text |-> Join(history_content[i].parts)]]

\* C6: when the history is a list with at least one well-formed item,
\* chat_endpoint builds the transcript of exactly the well-formed items, in
\* their order; every other item is dropped.
C6_NormalizeKeepsWellFormed ==
    \A r \in DOMAIN req :
        (/\ req[r].handler = "app"
         /\ req[r].pc \in {"ready", "done"}
         /\ HasHistoryList(req[r])
         /\ \E i \in DOMAIN ItemsOf(req[r]) : WellFormedItem(ItemsOf(req[r])[i])) =>
            /\ ~req[r].raised
            /\ TurnsOf(req[r].history_content) = ExpectedTurns(ItemsOf(req[r]))

\* the roles, lowercased, of the items whose role is recognized, in order
ExpectedRoles(items) ==
    LET kept == SelectSeq(items, LAMBDA it : RecognizedRole(Get(it, "role")))
    IN [i \in DOMAIN kept |-> Lower(Get(kept[i], "role").s)]

\* C7: when every item of the history is an object with non-empty text among
\* its parts, the roles decide alone: each recognized role gives a turn with
\* the lowercase role, each other role value drops its item only, and the
\* request neither crashes nor fails as a whole on a role.
C7_RoleCanonicalization ==
    \A r \in DOMAIN req :
        (/\ req[r].handler = "app"
         /\ req[r].pc \in {"ready", "done"}
         /\ HasHistoryList(req[r])
         /\ \A i \in DOMAIN ItemsOf(req[r]) : HasPartsText(ItemsOf(req[r])[i])) =>
            /\ ~req[r].raised
            /\ req[r].response # Response(500, "error", MsgHistoryFormat)
            /\ [i \in DOMAIN req[r].history_content |-> req[r].history_content[i].role]
                  = ExpectedRoles(ItemsOf(req[r]))

\* a body without a history key, and a body whose history is the empty list
BodyNoHistory == MkObj([history |-> Absent])
BodyEmptyHistory == MkObj([history |-> JList(<<>>)])

\* of the two bodies, the one that `data` is not
OtherBody(data) == IF data = BodyNoHistory THEN BodyEmptyHistory ELSE BodyNoHistory

\* C8: chat_endpoint rejects a request without history and a request with an
\* empty history as client errors, and the two responses differ.
C8_EmptyAndAbsentDistinguishable ==
    \A r \in DOMAIN req :
        (/\ req[r].handler = "app"
         /\ req[r].pc = "done"
         /\ req[r].data \in {BodyNoHistory, BodyEmptyHistory}) =>
            /\ ClientError(req[r])
            /\ req[r].response # ValidateApp(OtherBody(req[r].data)).response

\* the loop of chat_endpoint skips the item: an object whose role is missing,
\* empty or an unrecognized string, or whose parts are missing, no list, or a
\* list without a part that has a text key
SkippedItem(item) ==
    /\ IsObj(item)
    /\ Get(item, "role").t \in {"null", "str"}
    /\ \/ ~RecognizedRole(Get(item, "role"))
       \/ ~IsList(Get(item, "parts"))
       \/ \A i \in DOMAIN Get(item, "parts").items : ~TextPart(Get(item, "parts").items[i])

\* the history is a non-empty list and every item of it is skipped
AllItemsSkipped(q) ==
    /\ HasHistoryList(q)
    /\ ItemsOf(q) # <<>>
    /\ \A i \in DOMAIN ItemsOf(q) : SkippedItem(ItemsOf(q)[i])

C10_TranscriptInvariant ==
    \A r \in DOMAIN req :
        req[r].called =>
            \A i \in DOMAIN req[r].history_content :
                /\ req[r].history_content[i].role \in {"user", "model"}
                /\ Join(req[r].history_content[i].parts) # ""

\* two answered requests had the same input: the same handler, the same
\* transcript and, where both bodies are still held, the same body
SameRequest(q1, q2) ==
    /\ q1.pc = "done"
    /\ q2.pc = "done"
    /\ q1.handler = q2.handler
    /\ q1.history_content = q2.history_content
    /\ (q1.data = q2.data \/ q1.data = NoData \/ q2.data = NoData)

\* the outcome of a request: whether the gateway was invoked, and what went
\* back to the caller
SameOutcome(q1, q2) ==
    /\ q1.response = q2.response
    /\ q1.raised = q2.raised
    /\ q1.exc = q2.exc

\* C11: requests are independent. Under every interleaving of two workers, two
\* requests with the same input either both invoke the gateway or both do
\* not, and with the same gateway reply they have the same outcome; and no
\* step of a request changes the initialization flag or the other worker's
\* request.
C11_RequestsIndependent ==
    /\ [](\A r \in DOMAIN req : \A o \in DOMAIN req :
            SameRequest(req[r], req[o]) =>
                /\ req[r].called = req[o].called
                /\ (req[r].reply = req[o].reply => SameOutcome(req[r], req[o])))
    /\ [][/\ INITIALIZATION_SUCCESSFUL' = INITIALIZATION_SUCCESSFUL
          /\ \A r \in DOMAIN req : \A o \in DOMAIN req :
                (r # o /\ req'[r] # req[r]) => req'[o] = req[o]]_vars

\* two workers have answered the same transcript: the gateway call of one
\* raised and the caller got a server error, the other got a generated text
C11_Witness ==
    \E r \in DOMAIN req : \E o \in DOMAIN req :
        /\ r # o
        /\ SameRequest(req[r], req[o])
        /\ req[r].handler = "app"
        /\ req[r].reply.kind = "raise"
        /\ req[r].response = Response(500, "error", MsgException)
        /\ req[o].reply.kind = "response"
        /\ req[o].response = Response(200, "response", "Hi there")

\* the generated text the extractor obtains from a response: the text of the
\* leading candidate's parts, or the top-level text when it has no parts
\* ("" when it obtains none)
GeneratedText(response) ==
    IF CandidateText(response) # "" THEN CandidateText(response)
    ELSE IF response.candidates # <<>>
            /\ response.candidates[1].content.present
            /\ response.candidates[1].content.parts # <<>>
    THEN ""
    ELSE TopText(response)

\* C12: whenever the extractor obtains a non-empty generated text T from the
\* gateway's response, also a T that begins with "Error:", chat_endpoint
\* returns the success payload {"response": T} with status 200; the failure
\* payload is left to the requests for which no text was obtained.
C12_SuccessPayloadForEveryText ==
    \A r \in DOMAIN req :
        (/\ req[r].pc = "done"
         /\ req[r].handler = "app"
         /\ req[r].reply.kind = "response"
         /\ GeneratedText(req[r].reply) # "") =>
            req[r].response = Response(200, "response", GeneratedText(req[r].reply))

\* the loop of chat_endpoint keeps the item: an object with a recognized role
\* and a parts list that has a part with a text key
KeptItem(item) ==
    /\ IsObj(item)
    /\ RecognizedRole(Get(item, "role"))
    /\ IsList(Get(item, "parts"))
    /\ \E i \in DOMAIN Get(item, "parts").items : TextPart(Get(item, "parts").items[i])

\* the history passes validation: a list whose items are all kept or skipped,
\* at least one of them kept
PassesValidation(q) ==
    /\ HasHistoryList(q)
    /\ \A i \in DOMAIN ItemsOf(q) : KeptItem(ItemsOf(q)[i]) \/ SkippedItem(ItemsOf(q)[i])
    /\ \E i \in DOMAIN ItemsOf(q) : KeptItem(ItemsOf(q)[i])

\* the history is rejected by validation: missing, empty, no list, or a list
\* all of whose items are skipped
RejectedHistory(q) ==
    /\ q.data # NoData
    /\ IsObj(q.data)
    /\ (~IsList(HistoryOf(q.data)) \/ ItemsOf(q) = <<>> \/ AllItemsSkipped(q))

\* the configuration error a handler returns when initialization has failed
ConfigurationError == Response(500, "error", MsgNotInitialized)

====
